---- MODULE Spec2Model ----
(***************************************************************************)
(* Model of betaxiv: the flat-file session store (session_manager.py) and  *)
(* the Streamlit controller script (app.py).                               *)
(*                                                                         *)
(* Text is modelled as a sequence of atoms.  The characters that JSON      *)
(* treats specially (quote, backslash, newline, brackets, comma, colon,    *)
(* white space) are atoms of their own; a run of ordinary characters is    *)
(* one opaque atom.  Python values are modelled as tagged values           *)
(* [k |-> kind, p |-> payload].                                            *)
(***************************************************************************)
EXTENDS Integers, Sequences, FiniteSets, TLC

(***************************************************************************)
(* Python / JSON values                                                    *)
(***************************************************************************)
JNull == [k |-> "null", p |-> <<>>]
JTrue == [k |-> "bool", p |-> <<"true">>]
JFalse == [k |-> "bool", p |-> <<"false">>]
JNum(a) == [k |-> "num", p |-> <<a>>]
JStr(s) == [k |-> "str", p |-> s]
JArr(s) == [k |-> "arr", p |-> s]
JObj(s) == [k |-> "obj", p |-> s]
KV(key, val) == [key |-> key, val |-> val]

\* the atoms of text
QUOTE == "\""
BSL == "\\"
NL == "\n"
SP == " "
INDENT == "    "
Ws == {SP, INDENT, NL, "\t"}
\* numerals are opaque atoms; NumAtoms lists the ones the model uses
NumAtoms == {"0", "5", "7"}
\* a character outside ASCII and its \uXXXX escape
NonAscii == "e'"
UEsc == "u00e9"

\* a local variable: the expression is evaluated once and F reads its value
With(x, F(_)) == CHOOSE y \in {F(v) : v \in {x}} : TRUE

\* Python truthiness of a value (if data:, if not summary:, x and y)
Truthy(v) ==
    CASE v.k = "null" -> FALSE
      [] v.k = "bool" -> v = JTrue
      [] v.k = "num" -> v.p # <<"0">>
      [] OTHER -> v.p # <<>>

\* dict.get(key, default); raises AttributeError on a value that is no dict
HasKey(d, key) == \E n \in 1..Len(d.p) : d.p[n].key = key
Get(d, key, default) ==
    IF HasKey(d, key)
    THEN d.p[CHOOSE n \in 1..Len(d.p) : d.p[n].key = key].val
    ELSE default

(***************************************************************************)
(* json.dump(data, f, indent=4)                                            *)
(***************************************************************************)
RECURSIVE EscapeStr(_)
EscapeStr(s) ==
    IF s = <<>> THEN <<>>
    ELSE LET c == Head(s)
             e == CASE c = QUOTE -> <<BSL, QUOTE>>
                    [] c = BSL -> <<BSL, BSL>>
                    [] c = NL -> <<BSL, "n">>
                    [] c = NonAscii -> <<BSL, UEsc>>
                    [] OTHER -> <<c>>
         IN e \o EscapeStr(Tail(s))

\* a variant of DumpStr that writes the characters as they are
DumpStr_Unescaped(s) == <<QUOTE>> \o s \o <<QUOTE>>
DumpStr(s) == <<QUOTE>> \o EscapeStr(s) \o <<QUOTE>>

RECURSIVE Indent(_)
Indent(d) == IF d = 0 THEN <<>> ELSE <<INDENT>> \o Indent(d - 1)

RECURSIVE Dump(_, _)
RECURSIVE DumpItems(_, _, _)
RECURSIVE DumpPairs(_, _, _)
DumpItems(s, n, d) ==
    IF n > Len(s) THEN <<>>
    ELSE <<NL>> \o Indent(d) \o Dump(s[n], d)
         \o (IF n < Len(s) THEN <<",">> ELSE <<>>)
         \o DumpItems(s, n + 1, d)
DumpPairs(s, n, d) ==
    IF n > Len(s) THEN <<>>
    ELSE <<NL>> \o Indent(d) \o DumpStr(s[n].key) \o <<":", SP>>
         \o Dump(s[n].val, d)
         \o (IF n < Len(s) THEN <<",">> ELSE <<>>)
         \o DumpPairs(s, n + 1, d)
Dump(v, d) ==
    CASE v.k = "null" -> <<"null">>
      [] v.k = "bool" -> v.p
      [] v.k = "num" -> v.p
      [] v.k = "str" -> DumpStr(v.p)
      [] v.k = "arr" ->
            IF v.p = <<>> THEN <<"[", "]">>
            ELSE <<"[">> \o DumpItems(v.p, 1, d + 1)
                 \o <<NL>> \o Indent(d) \o <<"]">>
      [] v.k = "obj" ->
            IF v.p = <<>> THEN <<"{", "}">>
            ELSE <<"{">> \o DumpPairs(v.p, 1, d + 1)
                 \o <<NL>> \o Indent(d) \o <<"}">>

json_dump(data) == Dump(data, 0)

(***************************************************************************)
(* json.load(f): a decoder over the atoms of the text.  Every parser       *)
(* returns [ok, v, n]: whether it succeeded, the value, the next index.    *)
(***************************************************************************)
Fail == [ok |-> FALSE, v |-> JNull, n |-> 0]
Ok(v, n) == [ok |-> TRUE, v |-> v, n |-> n]

RECURSIVE SkipWs(_, _)
SkipWs(t, i) == IF i <= Len(t) /\ t[i] \in Ws THEN SkipWs(t, i + 1) ELSE i

\* the body of a string literal, from the atom after the opening quote
RECURSIVE ScanStr(_, _, _)
ScanStr(t, i, acc) ==
    IF i > Len(t) THEN Fail
    ELSE LET c == t[i] IN
         CASE c = QUOTE -> Ok(acc, i + 1)
           [] c = NL \/ c = "\t" -> Fail
           [] c = BSL ->
                IF i + 1 > Len(t) THEN Fail
                ELSE LET e == t[i + 1] IN
                     CASE e = QUOTE -> ScanStr(t, i + 2, Append(acc, QUOTE))
                       [] e = BSL -> ScanStr(t, i + 2, Append(acc, BSL))
                       [] e = "n" -> ScanStr(t, i + 2, Append(acc, NL))
                       [] e = UEsc -> ScanStr(t, i + 2, Append(acc, NonAscii))
                       [] OTHER -> Fail
           [] OTHER -> ScanStr(t, i + 1, Append(acc, c))

\* dict assignment: a repeated key keeps its place and takes the new value
SetKey(pairs, key, val) ==
    IF \E n \in 1..Len(pairs) : pairs[n].key = key
    THEN [n \in 1..Len(pairs) |->
            IF pairs[n].key = key THEN KV(key, val) ELSE pairs[n]]
    ELSE Append(pairs, KV(key, val))

RECURSIVE ParseValue(_, _)
RECURSIVE ParseItems(_, _, _)
RECURSIVE ParsePairs(_, _, _)
\* i is the index of the first atom of an item
ParseItems(t, i, acc) ==
    LET r == ParseValue(t, i) IN
    IF ~r.ok THEN Fail
    ELSE LET j == SkipWs(t, r.n) IN
         IF j > Len(t) THEN Fail
         ELSE CASE t[j] = "]" -> Ok(JArr(Append(acc, r.v)), j + 1)
                [] t[j] = "," -> ParseItems(t, SkipWs(t, j + 1), Append(acc, r.v))
                [] OTHER -> Fail
\* i is the index of the opening quote of a key
ParsePairs(t, i, acc) ==
    IF i > Len(t) \/ t[i] # QUOTE THEN Fail
    ELSE LET key == ScanStr(t, i + 1, <<>>) IN
         IF ~key.ok THEN Fail
         ELSE LET c == SkipWs(t, key.n) IN
              IF c > Len(t) \/ t[c] # ":" THEN Fail
              ELSE LET r == ParseValue(t, SkipWs(t, c + 1)) IN
                   IF ~r.ok THEN Fail
                   ELSE LET j == SkipWs(t, r.n)
                            acc2 == SetKey(acc, key.v, r.v)
                        IN IF j > Len(t) THEN Fail
                           ELSE CASE t[j] = "}" -> Ok(JObj(acc2), j + 1)
                                  [] t[j] = "," ->
                                        ParsePairs(t, SkipWs(t, j + 1), acc2)
                                  [] OTHER -> Fail
ParseValue(t, i) ==
    IF i > Len(t) THEN Fail
    ELSE LET c == t[i] IN
         CASE c = QUOTE ->
                LET s == ScanStr(t, i + 1, <<>>) IN
                IF s.ok THEN Ok(JStr(s.v), s.n) ELSE Fail
           [] c = "{" ->
                LET j == SkipWs(t, i + 1) IN
                IF j <= Len(t) /\ t[j] = "}" THEN Ok(JObj(<<>>), j + 1)
                ELSE ParsePairs(t, j, <<>>)
           [] c = "[" ->
                LET j == SkipWs(t, i + 1) IN
                IF j <= Len(t) /\ t[j] = "]" THEN Ok(JArr(<<>>), j + 1)
                ELSE ParseItems(t, j, <<>>)
           [] c = "null" -> Ok(JNull, i + 1)
           [] c = "true" -> Ok(JTrue, i + 1)
           [] c = "false" -> Ok(JFalse, i + 1)
           [] c \in NumAtoms -> Ok(JNum(c), i + 1)
           [] OTHER -> Fail

\* the whole text must be one value, white space around it allowed
json_load(t) ==
    With(ParseValue(t, SkipWs(t, 1)), LAMBDA r :
         IF r.ok /\ SkipWs(t, r.n) > Len(t) THEN Ok(r.v, r.n) ELSE Fail)

(***************************************************************************)
(* session_manager.py: the sessions directory is a function from the       *)
(* names of the files that exist to their text.                            *)
(***************************************************************************)
JSON_EXT == ".json"
K(name) == <<name>>

\* os.path.join(SESSIONS_DIR, f"{session_id}.json"), relative to the directory
FilePath(session_id) == session_id \o <<JSON_EXT>>

\* open(filepath, "w") and json.dump(data, f, indent=4)
save_session(dir, session_id, data) ==
    LET filepath == FilePath(session_id) IN
    [raised |-> FALSE,
     dir |-> [f \in DOMAIN dir \cup {filepath} |->
                IF f = filepath THEN json_dump(data) ELSE dir[f]]]

\* json.load of the file when it exists (it raises on text that is no
\* JSON), None otherwise
load_session(dir, session_id) ==
    LET filepath == FilePath(session_id) IN
    IF filepath \in DOMAIN dir
    THEN With(json_load(dir[filepath]), LAMBDA r :
              [raised |-> ~r.ok, v |-> r.v])
    ELSE [raised |-> FALSE, v |-> JNull]

\* a variant of delete_session without the os.path.exists test: os.remove
\* raises when there is no file
delete_session_Unchecked(dir, session_id) ==
    [raised |-> FilePath(session_id) \notin DOMAIN dir,
     dir |-> [f \in DOMAIN dir \ {FilePath(session_id)} |-> dir[f]]]
delete_session(dir, session_id) ==
    LET filepath == FilePath(session_id) IN
    [raised |-> FALSE,
     dir |-> IF filepath \in DOMAIN dir
             THEN [f \in DOMAIN dir \ {filepath} |-> dir[f]]
             ELSE dir]

\* str.endswith and str.replace(".json", ""), on the atoms of a file name
EndsWithJson(filename) ==
    filename # <<>> /\ filename[Len(filename)] = JSON_EXT
ReplaceJson(filename) == SelectSeq(filename, LAMBDA a : a # JSON_EXT)

\* the order of the characters the model's timestamps are written with
CharOrder == <<"0", "1", "2", "3", "4", "5", "6", "7", "8", "9", "10", "11",
               "12", "13", "14", "15", "T">>
CharRank(a) == CHOOSE n \in 1..Len(CharOrder) : CharOrder[n] = a
NumVal(a) == CASE a = "0" -> 0 [] a = "5" -> 5 [] a = "7" -> 7
                [] a = "true" -> 1 [] a = "false" -> 0

\* Python's < between two sort keys, which in the model are strings,
\* numbers and None: defined between two strings and between two numbers,
\* TypeError otherwise
Comparable(a, b) ==
    \/ a.k = "str" /\ b.k = "str"
    \/ a.k \in {"num", "bool"} /\ b.k \in {"num", "bool"}
RECURSIVE StrLess(_, _)
StrLess(s, t) ==
    CASE t = <<>> -> FALSE
      [] s = <<>> -> TRUE
      [] Head(s) = Head(t) -> StrLess(Tail(s), Tail(t))
      [] OTHER -> CharRank(Head(s)) < CharRank(Head(t))
Less(a, b) ==
    IF a.k = "str" THEN StrLess(a.p, b.p) ELSE NumVal(a.p[1]) < NumVal(b.p[1])

\* the body of the try block of list_sessions for one file
ListEntry(dir, filename) ==
    With(json_load(dir[filename]), LAMBDA r :
    IF ~r.ok \/ r.v.k # "obj" THEN [raised |-> TRUE, v |-> <<>>]
    ELSE LET title == Get(r.v, K("title"), JStr(filename)) IN
         [raised |-> FALSE,
          v |-> [id |-> ReplaceJson(filename),
                 title |-> title,
                 timestamp |-> Get(r.v, K("timestamp"), JStr(<<>>)),
                 preview |-> title]])

\* the loop of list_sessions over os.listdir in the order it returns
RECURSIVE ListEntries(_, _)
ListEntries(dir, listing) ==
    IF listing = <<>> THEN <<>>
    ELSE LET filename == Head(listing)
             rest == ListEntries(dir, Tail(listing))
         IN IF ~EndsWithJson(filename) THEN rest
            ELSE With(ListEntry(dir, filename), LAMBDA e :
                      IF e.raised THEN rest ELSE <<e.v>> \o rest)

\* sessions.sort(key=timestamp, reverse=True): stable, descending
RECURSIVE SortDesc(_)
InsertDesc(sorted, e) ==
    LET before == {n \in 1..Len(sorted) :
                      ~Less(sorted[n].timestamp, e.timestamp)}
        m == Cardinality(before)
    IN SubSeq(sorted, 1, m) \o <<e>> \o SubSeq(sorted, m + 1, Len(sorted))
SortDesc(s) ==
    IF s = <<>> THEN <<>>
    ELSE InsertDesc(SortDesc(SubSeq(s, 1, Len(s) - 1)), s[Len(s)])
SortRaises(s) ==
    \E m, n \in 1..Len(s) :
        m # n /\ ~Comparable(s[m].timestamp, s[n].timestamp)

list_sessions(dir, listing) ==
    With(ListEntries(dir, listing), LAMBDA entries :
         IF SortRaises(entries) THEN [raised |-> TRUE, v |-> <<>>]
         ELSE [raised |-> FALSE, v |-> SortDesc(entries)])

\* one order os.listdir may return the names in
RECURSIVE SetToSeq(_)
SetToSeq(S) ==
    IF S = {} THEN <<>>
    ELSE LET x == CHOOSE y \in S : TRUE IN <<x>> \o SetToSeq(S \ {x})
SomeListing(dir) == SetToSeq(DOMAIN dir)

\* the orders os.listdir may return the names of a directory in
Listings(dir) ==
    {l \in [1..Cardinality(DOMAIN dir) -> DOMAIN dir] :
        \A f \in DOMAIN dir : \E n \in DOMAIN l : l[n] = f}

(***************************************************************************)
(* Bounds of the model                                                     *)
(***************************************************************************)
\* the count of summary requests stops at this number
CallCap == 2
\* user actions that run the script; a run that writes the uploaded
\* document to a temporary file counts as two
MaxRuns == 6
\* turns the working chat history may hold
MaxTurns == 4
\* session ids New Chat may allocate after the first
MaxNewChats == 1
\* exchanges that may be saved
MaxSaves == 2
\* times upload_to_gemini may find the remote file still PROCESSING
MaxPolls == 3

(***************************************************************************)
(* app.py: state                                                           *)
(***************************************************************************)
VARIABLES
    files,           \* the sessions directory: file name -> text
    session_state,   \* st.session_state
    uploaded_file,   \* the value of the st.file_uploader widget
    system_prompt,   \* the st.text_area widget: value parameter and text
    api_key,         \* whether an API key is configured
    disk,            \* the local PDF files: path -> document
    n_tmp,           \* temporary files created so far
    n_uuid,          \* session ids allocated so far
    n_runs,          \* script runs so far, as MaxRuns counts them
    clock,           \* datetime.now()
    errors,          \* the st.error messages of the last script run
    shown,           \* the summary and the chat messages the last script
                     \* run rendered
    sessions,        \* the session buttons the last script run rendered
    summarize_calls, \* per document: summaries requested since the last
                     \* New Chat or session load
    result,          \* session store: the last operation and its outcome
    saved,           \* session store: id -> the data last saved under it
    frame            \* the call that is followed statement by statement:
                     \* its position and its locals

vars == <<files, session_state, uploaded_file, system_prompt, api_key, disk,
          n_tmp, n_uuid, n_runs, clock, errors, shown, sessions,
          summarize_calls, result, saved, frame>>

Docs == {"D1", "D2"}
NoUpload == "none"
\* what the user asks: the first question at an even number of turns, the
\* second at an odd number
Prompts == <<JStr(<<"What is the method?">>), JStr(<<"Why?">>)>>
\* a remote call raises
Raise == JNull
\* what a send_message call may end in
Replies == {JStr(<<"Gradient descent.">>), Raise}
Summaries == {JStr(<<"S">>), Raise}
EditedPrompts == {JStr(<<"Be brief.">>)}

DEFAULT_PROMPT == <<"Analyze this paper.">>
ACK == <<"I have analyzed the paper based on your instructions. What would you like to know?">>
SUMMARY_REQ == <<"Summarize this paper in a detailed, engaging blog post format. Use markdown for formatting.">>
TITLE_LEN == 50

\* str(uuid.uuid4()): an id no earlier call returned
Uuid(n) == <<"uuid-", ToString(n)>>
\* tempfile.NamedTemporaryFile(delete=False, suffix=".pdf").name
TmpPath(n) == <<"/tmp/tmp", ToString(n), ".pdf">>
\* datetime.now().isoformat()
IsoFormat(t) == <<"T", ToString(t)>>

Msg(role, content) ==
    JObj(<<KV(K("role"), JStr(<<role>>)), KV(K("content"), JStr(content))>>)
Turn(role, parts) == [role |-> role, parts |-> parts]

\* the remote file object, named here by the local file it was made from
\* and the document in it, and the chat session object
GeminiFile(path, doc) == [k |-> "file", p |-> <<path, doc>>]
ChatSession(history) == [k |-> "chat", p |-> history]

(***************************************************************************)
(* app.py: the remote provider                                             *)
(***************************************************************************)
\* upload_to_gemini: states is what upload_file and then each get_file
\* report; the loop leaves at the first state that is not PROCESSING
RECURSIVE FirstSettled(_)
FirstSettled(states) ==
    IF Len(states) = 1 \/ Head(states) # "PROCESSING" THEN Head(states)
    ELSE FirstSettled(Tail(states))
upload_to_gemini(path, doc, states) ==
    LET state == FirstSettled(states) IN
    [raised |-> state = "FAILED", file |-> GeminiFile(path, doc)]

UploadStates == {<<"PROCESSING", "ACTIVE">>, <<"PROCESSING", "FAILED">>}

\* model.start_chat(history=...)
start_chat(history) == ChatSession(history)

\* chat_session.send_message(text): reply is the text of the response, or
\* Raise; the session's history grows by the exchange on success only
send_message(chat, text, reply) ==
    IF reply = Raise THEN [raised |-> TRUE, chat |-> chat, text |-> <<>>]
    ELSE [raised |-> FALSE,
          chat |-> ChatSession(chat.p \o <<Turn("user", <<JStr(text)>>),
                                           Turn("model", <<JStr(reply.p)>>)>>),
          text |-> reply.p]

(***************************************************************************)
(* app.py: callbacks                                                       *)
(***************************************************************************)
\* a variant of new_chat that leaves the summary and the document path
new_chat_KeepSummary(ss, uuid) ==
    [ss EXCEPT !.session_id = uuid,
               !.chat_history = JArr(<<>>),
               !.gemini_file = JNull,
               !.chat_session = JNull,
               !.system_prompt_val = JStr(DEFAULT_PROMPT)]
new_chat(ss, uuid) ==
    [ss EXCEPT !.session_id = uuid,
               !.chat_history = JArr(<<>>),
               !.summary = JNull,
               !.gemini_file = JNull,
               !.chat_session = JNull,
               !.current_file_path = JNull,
               !.system_prompt_val = JStr(DEFAULT_PROMPT)]

\* a variant of load_chat_session that keeps the two remote handles
load_chat_session_KeepHandles(ss, dir, session_id) ==
    With(load_session(dir, session_id), LAMBDA r :
    LET data == r.v
    IN IF r.raised THEN [raised |-> TRUE, ss |-> ss]
       ELSE IF ~Truthy(data) THEN [raised |-> FALSE, ss |-> ss]
       ELSE IF data.k # "obj" THEN [raised |-> TRUE, ss |-> ss]
       ELSE [raised |-> FALSE,
             ss |-> [ss EXCEPT
                 !.session_id = session_id,
                 !.chat_history = Get(data, K("chat_history"), JArr(<<>>)),
                 !.summary = Get(data, K("summary"), JNull),
                 !.current_file_path = Get(data, K("pdf_path"), JNull),
                 !.system_prompt_val =
                     Get(data, K("system_prompt"), JStr(DEFAULT_PROMPT))]])
\* raised: json.load failed, or data is a non-empty value that is no dict
load_chat_session(ss, dir, session_id) ==
    With(load_session(dir, session_id), LAMBDA r :
    LET data == r.v
    IN IF r.raised THEN [raised |-> TRUE, ss |-> ss]
       ELSE IF ~Truthy(data) THEN [raised |-> FALSE, ss |-> ss]
       ELSE IF data.k # "obj" THEN [raised |-> TRUE, ss |-> ss]
       ELSE [raised |-> FALSE,
             ss |-> [ss EXCEPT
                 !.session_id = session_id,
                 !.chat_history = Get(data, K("chat_history"), JArr(<<>>)),
                 !.summary = Get(data, K("summary"), JNull),
                 !.current_file_path = Get(data, K("pdf_path"), JNull),
                 !.system_prompt_val =
                     Get(data, K("system_prompt"), JStr(DEFAULT_PROMPT)),
                 !.gemini_file = JNull,
                 !.chat_session = JNull]])

(***************************************************************************)
(* app.py: one run of the script.  The state the script reads and writes   *)
(* is passed along as a record w with one field per variable.              *)
(***************************************************************************)
\* line 87: a text_area whose value parameter changed is a new widget
\* showing that value; otherwise it keeps the text the user typed
TextArea(w) ==
    IF w.system_prompt.value = w.session_state.system_prompt_val THEN w
    ELSE [w EXCEPT !.system_prompt =
            [value |-> w.session_state.system_prompt_val,
             text |-> w.session_state.system_prompt_val]]

\* lines 120-122: the session buttons; s['timestamp'][:10] raises on a
\* timestamp that cannot be sliced
SidebarSessions(dir) ==
    With(list_sessions(dir, SomeListing(dir)), LAMBDA ls :
         IF \/ ls.raised
            \/ \E n \in 1..Len(ls.v) :
                  ls.v[n].timestamp.k \notin {"str", "arr"}
         THEN [raised |-> TRUE, v |-> <<>>]
         ELSE ls)
Sidebar(w) ==
    With(SidebarSessions(w.files), LAMBDA ls :
         [raised |-> ls.raised, w |-> [w EXCEPT !.sessions = ls.v]])

\* lines 170-189: the file to process
SelectFile(w) ==
    IF w.uploaded_file # NoUpload
    THEN LET active_file_path == JStr(TmpPath(w.n_tmp + 1))
             w1 == [w EXCEPT
                      !.n_tmp = @ + 1,
                      !.disk = [f \in DOMAIN @ \cup {active_file_path.p} |->
                                  IF f = active_file_path.p
                                  THEN w.uploaded_file ELSE @[f]]]
         IN [active |-> active_file_path,
             w |-> IF w.session_state.current_file_path # active_file_path
                   THEN [w1 EXCEPT
                           !.session_state.current_file_path = active_file_path,
                           !.session_state.gemini_file = JNull]
                   ELSE w1]
    ELSE IF /\ Truthy(w.session_state.current_file_path)
            /\ w.session_state.current_file_path.p \in DOMAIN w.disk
         THEN [active |-> w.session_state.current_file_path, w |-> w]
         ELSE [active |-> JNull, w |-> w]

\* lines 206-215
initial_history(gemini_file, prompt_text) ==
    <<Turn("user", <<gemini_file, prompt_text>>),
      Turn("model", <<JStr(ACK)>>)>>

\* lines 235-240
RECURSIVE full_history(_, _)
full_history(initial, chat_history) ==
    IF chat_history = <<>> THEN initial
    ELSE LET msg == chat_history[Len(chat_history)] IN
         Append(full_history(initial,
                             SubSeq(chat_history, 1, Len(chat_history) - 1)),
                Turn(IF Get(msg, K("role"), JNull) = JStr(<<"user">>)
                     THEN "user" ELSE "model",
                     <<Get(msg, K("content"), JNull)>>))

\* line 221: what the summary request answers in a conversation about
\* document doc: a text about that document, unless the call raises
SummaryReply(doc, outcome) ==
    IF outcome = Raise THEN Raise ELSE JStr(outcome.p \o <<" of ", doc>>)

\* lines 219-223, then 228-241, inside the try block
Summarize(w, o) ==
    IF Truthy(w.session_state.summary) THEN [raised |-> FALSE, w |-> w]
    ELSE LET doc == w.session_state.gemini_file.p[2]
             r == send_message(w.session_state.chat_session, SUMMARY_REQ,
                               SummaryReply(doc, o.summary))
             w1 == [w EXCEPT
                      !.summarize_calls[doc] =
                          IF @ < CallCap THEN @ + 1 ELSE @,
                      !.session_state.chat_session = r.chat]
         IN IF r.raised THEN [raised |-> TRUE, w |-> w1]
            ELSE [raised |-> FALSE,
                  w |-> [w1 EXCEPT !.session_state.summary = JStr(r.text)]]

Replay(w, initial) ==
    IF ~Truthy(w.session_state.chat_history) THEN w
    ELSE [w EXCEPT !.session_state.chat_session =
            start_chat(full_history(initial, w.session_state.chat_history.p))]

\* lines 192-244
ProcessFile(w, active, o) ==
    IF ~(Truthy(active) /\ w.api_key) THEN w
    ELSE IF Truthy(w.session_state.gemini_file) THEN w
    ELSE LET up == upload_to_gemini(active.p, w.disk[active.p], o.upload)
             w1 == w
         IN IF up.raised THEN [w1 EXCEPT !.errors = @ \cup {"process"}]
            ELSE LET initial == initial_history(up.file, w1.system_prompt.text)
                     w2 == [w1 EXCEPT
                              !.session_state.gemini_file = up.file,
                              !.session_state.chat_session =
                                  start_chat(initial)]
                     sm == Summarize(w2, o)
                 IN IF sm.raised
                    THEN [sm.w EXCEPT !.errors = @ \cup {"process"}]
                    ELSE Replay(sm.w, initial)

\* a variant of session_data that stores the last exchange only
session_data_LastExchange(w) ==
    JObj(<<KV(K("timestamp"), JStr(IsoFormat(w.clock))),
           KV(K("title"), JStr(<<"New Chat">>)),
           KV(K("pdf_path"), w.session_state.current_file_path),
           KV(K("chat_history"),
              JArr(SubSeq(w.session_state.chat_history.p,
                          Len(w.session_state.chat_history.p) - 1,
                          Len(w.session_state.chat_history.p)))),
           KV(K("summary"), w.session_state.summary),
           KV(K("system_prompt"), w.system_prompt.text)>>)
\* lines 286-293
session_data(w) ==
    JObj(<<KV(K("timestamp"), JStr(IsoFormat(w.clock))),
           KV(K("title"),
              IF Truthy(w.session_state.chat_history)
              THEN LET content == Get(w.session_state.chat_history.p[1],
                                      K("content"), JNull).p
                   IN JStr(SubSeq(content, 1,
                                  IF Len(content) < TITLE_LEN
                                  THEN Len(content) ELSE TITLE_LEN))
              ELSE JStr(<<"New Chat">>)),
           KV(K("pdf_path"), w.session_state.current_file_path),
           KV(K("chat_history"), w.session_state.chat_history),
           KV(K("summary"), w.session_state.summary),
           KV(K("system_prompt"), w.system_prompt.text)>>)

\* a variant of ChatInput that saves the session when the send failed too
ChatInput_SaveOnFailure(w, prompt, o) ==
    IF ~Truthy(w.session_state.chat_session) \/ ~Truthy(prompt) THEN w
    ELSE LET w1 == [w EXCEPT !.session_state.chat_history =
                        JArr(Append(@.p, Msg("user", prompt.p)))]
             r == send_message(w1.session_state.chat_session, prompt.p,
                               o.answer)
             w2 == [w1 EXCEPT !.session_state.chat_session = r.chat]
             w3 == IF r.raised THEN [w2 EXCEPT !.errors = @ \cup {"generate"}]
                   ELSE [w2 EXCEPT
                           !.session_state.chat_history =
                               JArr(Append(@.p, Msg("assistant", r.text))),
                           !.clock = @ + 1]
         IN [w3 EXCEPT !.files =
                save_session(w3.files, w3.session_state.session_id,
                             session_data(w3)).dir]
\* lines 261-297: prompt is the value of st.chat_input, None when nothing
\* was submitted
ChatInput(w, prompt, o) ==
    IF ~Truthy(w.session_state.chat_session) \/ ~Truthy(prompt) THEN w
    ELSE LET w1 == [w EXCEPT !.session_state.chat_history =
                        JArr(Append(@.p, Msg("user", prompt.p)))]
             r == send_message(w1.session_state.chat_session, prompt.p,
                               o.answer)
             w2 == [w1 EXCEPT !.session_state.chat_session = r.chat]
         IN IF r.raised THEN [w2 EXCEPT !.errors = @ \cup {"generate"}]
            ELSE LET w3 == [w2 EXCEPT
                              !.session_state.chat_history =
                                  JArr(Append(@.p, Msg("assistant", r.text))),
                              !.clock = @ + 1]
                     sv == save_session(w3.files, w3.session_state.session_id,
                                        session_data(w3))
                 IN [w3 EXCEPT !.files = sv.dir]

\* lines 246-256: the tabs are inside the Process File block; the summary
\* tab renders the summary when there is one
NothingShown == [summary |-> JNull, chat |-> JNull]
Tabs(w, active) ==
    IF ~(Truthy(active) /\ w.api_key) THEN w
    ELSE [w EXCEPT !.shown.summary =
            IF Truthy(w.session_state.summary) THEN w.session_state.summary
            ELSE JNull]

\* lines 261-265, 271, 282: the messages are rendered while a chat session
\* exists: the chat history, then the prompt and the answer of this run
ChatMessages(w) ==
    IF ~Truthy(w.session_state.chat_session) THEN w
    ELSE [w EXCEPT !.shown.chat = w.session_state.chat_history]

\* the script from top to bottom; an exception outside a try block ends it
RunScript(w, prompt, o) ==
    With(Sidebar(TextArea([w EXCEPT !.errors = {},
                                    !.shown = NothingShown])), LAMBDA side :
         IF side.raised THEN [side.w EXCEPT !.errors = {"exception"}]
         ELSE With(SelectFile(side.w), LAMBDA sel :
              With(ProcessFile(sel.w, sel.active, o), LAMBDA w1 :
              With(ChatInput(Tabs(w1, sel.active), prompt, o), LAMBDA w2 :
                   ChatMessages(w2)))))

(***************************************************************************)
(* app.py: the user's actions.  Every action but RemoveLocalFile is a run  *)
(* of the script; the remote calls of the run end as o says.  Without an   *)
(* API key the user fills the uploader or types the key, nothing else.     *)
(***************************************************************************)

World ==
    [files |-> files, session_state |-> session_state,
     uploaded_file |-> uploaded_file, system_prompt |-> system_prompt,
     api_key |-> api_key, disk |-> disk, n_tmp |-> n_tmp,
     n_uuid |-> n_uuid, n_runs |-> n_runs, clock |-> clock,
     errors |-> errors, shown |-> shown, sessions |-> sessions,
     summarize_calls |-> summarize_calls]

Assign(w) ==
    /\ files' = w.files
    /\ session_state' = w.session_state
    /\ uploaded_file' = w.uploaded_file
    /\ system_prompt' = w.system_prompt
    /\ api_key' = w.api_key
    /\ disk' = w.disk
    /\ n_tmp' = w.n_tmp
    /\ n_uuid' = w.n_uuid
    /\ n_runs' = w.n_runs
    /\ clock' = w.clock
    /\ errors' = w.errors
    /\ shown' = w.shown
    /\ sessions' = w.sessions
    /\ summarize_calls' = w.summarize_calls
    /\ UNCHANGED <<result, saved, frame>>

\* whether the run of the script from w uploads the document
WouldUpload(w) ==
    LET sel == SelectFile(TextArea(w)) IN
    /\ Truthy(sel.active)
    /\ w.api_key
    /\ ~Truthy(sel.w.session_state.gemini_file)

\* the run stays within the bounds of the model
RunCost(w) == IF w.uploaded_file # NoUpload THEN 2 ELSE 1
RunEnabled(w) == w.n_runs + RunCost(w) <= MaxRuns

\* how the remote calls of a run may end
Outcomes == [upload : UploadStates, summary : Summaries, answer : Replies]
\* a call the run from w does not make has one outcome
OutcomesFor(w, asks) ==
    [upload : IF WouldUpload(w) THEN UploadStates
              ELSE {<<"PROCESSING", "ACTIVE">>},
     summary : IF WouldUpload(w) /\ ~Truthy(w.session_state.summary)
               THEN Summaries ELSE {Raise},
     answer : IF asks THEN Replies ELSE {Raise}]

\* one run of the script from the state w the event leaves, the remote
\* calls ending as o says
RunWith(w, prompt, o) ==
    \E w0 \in {w} :
        /\ RunEnabled(w0)
        /\ o \in OutcomesFor(w0, Truthy(prompt))
        /\ \E w1 \in {RunScript([w0 EXCEPT !.n_runs = @ + RunCost(w0)],
                                 prompt, o)} :
              Assign(w1)
Run(w, prompt) == \E o \in Outcomes : RunWith(w, prompt, o)

NoCalls == [d \in Docs |-> 0]

\* any interaction that only reruns the script (the model picker)
Rerun ==
    /\ api_key
    /\ Run(World, JNull)

\* the user puts document d into the uploader, or empties it
UploadFile(d) ==
    /\ d # uploaded_file
    /\ Run([World EXCEPT !.uploaded_file = d], JNull)

\* the user submits the chat input, which is shown while a chat session is
CanSend(q) ==
    /\ api_key
    /\ Truthy(session_state.chat_session)
    /\ Len(session_state.chat_history.p) + 2 <= MaxTurns
    /\ clock < MaxSaves
    /\ q = Prompts[(Len(session_state.chat_history.p) % 2) + 1]
SendMessageWith(q, o) == CanSend(q) /\ RunWith(World, q, o)
SendMessage(q) == \E o \in Outcomes : SendMessageWith(q, o)

\* the New Chat button: the callback, then the script
NewChat ==
    /\ api_key
    /\ n_uuid <= MaxNewChats
    /\ Run([World EXCEPT !.session_state = new_chat(@, Uuid(n_uuid + 1)),
                         !.n_uuid = @ + 1,
                         !.summarize_calls = NoCalls], JNull)

\* a session button: load_chat_session, then st.rerun()
ClickSession(n) ==
    /\ api_key
    /\ n \in 1..Len(sessions)
    /\ \E ld \in {load_chat_session(session_state, files, sessions[n].id)} :
          IF ld.raised
          THEN /\ n_runs < MaxRuns
               /\ Assign([World EXCEPT !.errors = {"exception"},
                                       !.shown = NothingShown,
                                       !.n_runs = @ + 1])
          ELSE Run([World EXCEPT !.session_state = ld.ss,
                                 !.summarize_calls = NoCalls], JNull)

\* the user edits the System Prompt text area, before a conversation is
\* started
EditSystemPrompt(text) ==
    /\ api_key
    /\ ~Truthy(session_state.chat_session)
    /\ text # system_prompt.text
    /\ Run([World EXCEPT !.system_prompt.text = text], JNull)

\* the user types the API key
EnterApiKey ==
    /\ ~api_key
    /\ Run([World EXCEPT !.api_key = TRUE], JNull)

\* the local PDF of the working session disappears (temporary files are
\* not kept forever); the files of other sessions stay
RemoveLocalFile(path) ==
    /\ api_key
    /\ path \in DOMAIN disk
    /\ uploaded_file = NoUpload
    /\ session_state.current_file_path = JStr(path)
    /\ disk' = [f \in DOMAIN disk \ {path} |-> disk[f]]
    /\ UNCHANGED <<files, session_state, uploaded_file, system_prompt,
                   api_key, n_tmp, n_uuid, n_runs, clock, errors, shown,
                   sessions, summarize_calls, result, saved, frame>>

\* a directory left by earlier use: a record written without most keys
OLD_ID == <<"old">>
OLD_PDF == <<"/old.pdf">>
OldRecord ==
    JObj(<<KV(K("title"), JStr(<<"Old chat">>)),
           KV(K("pdf_path"), JStr(OLD_PDF))>>)
EmptyDir == [f \in {} |-> <<>>]
OldDir == [f \in {FilePath(OLD_ID)} |-> json_dump(OldRecord)]

NoResult == [op |-> "none", id |-> <<>>, raised |-> FALSE, v |-> JNull]
\* no call is in progress
NoFrame == [fn |-> "none", pc |-> "none"]

\* the state after the first run of the script in a new browser session,
\* dir being the sessions directory it finds
InitWith(dir) ==
    /\ files = dir
    /\ session_state =
         [system_prompt_val |-> JStr(DEFAULT_PROMPT),
          session_id |-> Uuid(1),
          chat_history |-> JArr(<<>>),
          summary |-> JNull,
          gemini_file |-> JNull,
          chat_session |-> JNull,
          current_file_path |-> JNull]
    /\ uploaded_file = NoUpload
    /\ system_prompt = [value |-> JStr(DEFAULT_PROMPT),
                        text |-> JStr(DEFAULT_PROMPT)]
    /\ api_key \in BOOLEAN
    /\ disk = [f \in {OLD_PDF} |-> "D1"]
    /\ n_tmp = 0
    /\ n_uuid = 1
    /\ n_runs = 0
    /\ clock = 0
    /\ errors = {}
    /\ shown = NothingShown
    /\ sessions = SidebarSessions(dir).v
    /\ summarize_calls = NoCalls
    /\ result = NoResult
    /\ saved = EmptyDir
    /\ frame = NoFrame

Init == InitWith(OldDir)

Next ==
    \/ Rerun
    \/ \E d \in Docs \cup {NoUpload} : UploadFile(d)
    \/ \E n \in 1..Len(Prompts) : SendMessage(Prompts[n])
    \/ NewChat
    \/ \E n \in 1..Len(sessions) : ClickSession(n)
    \/ \E text \in EditedPrompts : EditSystemPrompt(text)
    \/ EnterApiKey
    \/ \E path \in DOMAIN disk : RemoveLocalFile(path)

Spec == Init /\ [][Next]_vars

TypeOK ==
    /\ n_tmp \in 0..MaxRuns
    /\ Len(session_state.chat_history.p) <= MaxTurns

(***************************************************************************)
(* The session store on its own: any caller, any directory contents.       *)
(***************************************************************************)
StoreIds == {<<"s1">>, <<"s2">>, <<"a", JSON_EXT>>}
NOTES == <<"notes", ".txt">>

\* data a caller may save
StoreRecords ==
    <<JObj(<<KV(K("timestamp"), JStr(<<"T", "1">>)),
             KV(K("title"), JStr(<<"say ", QUOTE, "hi", QUOTE>>)),
             KV(K("pdf_path"), JNull),
             KV(K("chat_history"),
                JArr(<<Msg("user", <<"a", BSL, "n", NL, NonAscii, "{", ",",
                                     QUOTE, BSL>>),
                       Msg("assistant", <<>>)>>)),
             KV(K("summary"), JStr(<<"]", ":", SP, "null">>))>>),
      JObj(<<KV(K("timestamp"), JStr(<<"T", "2">>)),
             KV(K("n"), JArr(<<JNum("7"), JTrue, JFalse, JNull, JArr(<<>>),
                               JObj(<<>>)>>))>>),
      JObj(<<KV(K("timestamp"), JNum("5")), KV(K("title"), JNull)>>),
      JObj(<<>>),
      JArr(<<JStr(<<"x">>)>>)>>

\* text no save wrote: a record cut short, an empty file, a timestamp of
\* null, a key written twice
CutShort == SubSeq(json_dump(StoreRecords[1]), 1, 12)
NullStamp == <<"{", QUOTE, "timestamp", QUOTE, ":", "null", "}">>
TwoKeys == <<"{", QUOTE, "title", QUOTE, ":", "5", ",", SP,
             QUOTE, "title", QUOTE, ":", "\t", "7", "}", NL>>

StoreDirs ==
    {EmptyDir,
     [f \in {FilePath(<<"s1">>), NOTES} |->
        IF f = NOTES THEN json_dump(StoreRecords[2]) ELSE CutShort],
     [f \in {FilePath(<<"s1">>), FilePath(<<"s2">>)} |->
        IF f = FilePath(<<"s1">>) THEN NullStamp ELSE <<>>],
     [f \in {FilePath(<<"s2">>)} |-> TwoKeys]}

InitStore == \E dir \in StoreDirs : InitWith(dir)

AppVars == <<session_state, uploaded_file, system_prompt, api_key, disk,
             n_tmp, n_uuid, n_runs, clock, errors, shown, sessions,
             summarize_calls, frame>>

StoreSave(id, n) ==
    \E r \in {save_session(files, id, StoreRecords[n])} :
    /\ files' = r.dir
    /\ result' = [op |-> "save", id |-> id, raised |-> r.raised, v |-> JNull]
    /\ saved' = [i \in DOMAIN saved \cup {id} |->
                   IF i = id THEN StoreRecords[n] ELSE saved[i]]
    /\ UNCHANGED AppVars

StoreLoad(id) ==
    \E r \in {load_session(files, id)} :
    /\ result' = [op |-> "load", id |-> id, raised |-> r.raised, v |-> r.v]
    /\ UNCHANGED <<files, saved>>
    /\ UNCHANGED AppVars

StoreList(listing) ==
    \E r \in {list_sessions(files, listing)} :
    /\ result' = [op |-> "list", id |-> <<>>, raised |-> r.raised,
                  v |-> JArr(r.v)]
    /\ UNCHANGED <<files, saved>>
    /\ UNCHANGED AppVars

StoreDelete(id) ==
    \E r \in {delete_session(files, id)} :
    /\ files' = r.dir
    /\ result' = [op |-> "delete", id |-> id, raised |-> r.raised,
                  v |-> JNull]
    /\ saved' = [i \in DOMAIN saved \ {id} |-> saved[i]]
    /\ UNCHANGED AppVars

NextStore ==
    \/ \E id \in StoreIds, n \in 1..Len(StoreRecords) : StoreSave(id, n)
    \/ \E id \in StoreIds : StoreLoad(id)
    \/ \E listing \in Listings(files) : StoreList(listing)
    \/ \E id \in StoreIds : StoreDelete(id)

SpecStore == InitStore /\ [][NextStore]_vars

(***************************************************************************)
(* upload_to_gemini statement by statement, the remote file changing state *)
(* on its own.                                                             *)
(***************************************************************************)
ProgramVars == <<files, session_state, uploaded_file, system_prompt, api_key,
                 disk, n_tmp, n_uuid, n_runs, clock, errors, shown, sessions,
                 summarize_calls, result, saved>>

FileStates == {"PROCESSING", "ACTIVE", "FAILED"}
UploadPaths == {OLD_PDF, TmpPath(1)}

\* line 155: the condition of the while loop
PollAgain_UntilActive(state) == state # "ACTIVE"
PollAgain(state) == state = "PROCESSING"

Uploading == frame.fn = "upload_to_gemini"
UploadDone == Uploading /\ frame.pc \in {"returned", "raised"}

\* line 154: genai.upload_file returns the file in the state the remote
\* side has it in
UploadCall(path, doc, state) ==
    /\ frame.pc \in {"none", "returned", "raised"}
    /\ frame' = [fn |-> "upload_to_gemini", pc |-> "while", path |-> path,
                 doc |-> doc, remote |-> state, state |-> state,
                 seen |-> <<state>>]
    /\ UNCHANGED ProgramVars

\* line 155
WhileTest ==
    /\ Uploading
    /\ frame.pc = "while"
    /\ frame' = [frame EXCEPT !.pc = IF PollAgain(frame.state)
                                     THEN "sleep" ELSE "if"]
    /\ UNCHANGED ProgramVars

\* line 156
Sleep ==
    /\ Uploading
    /\ frame.pc = "sleep"
    /\ frame' = [frame EXCEPT !.pc = "get_file"]
    /\ UNCHANGED ProgramVars

\* line 157; of the polls that find the file PROCESSING the model follows
\* MaxPolls
GetFile ==
    /\ Uploading
    /\ frame.pc = "get_file"
    /\ \/ Len(frame.seen) < MaxPolls
       \/ frame.remote # "PROCESSING" /\ frame.state = "PROCESSING"
    /\ frame' = [frame EXCEPT !.pc = "while", !.state = frame.remote,
                              !.seen = Append(@, frame.remote)]
    /\ UNCHANGED ProgramVars

\* lines 158-160
IfFailed ==
    /\ Uploading
    /\ frame.pc = "if"
    /\ frame' = [frame EXCEPT !.pc = IF frame.state = "FAILED"
                                     THEN "raised" ELSE "returned"]
    /\ UNCHANGED ProgramVars

\* the remote side finishes processing the file, one way or the other
RemoteSettles(state) ==
    /\ Uploading
    /\ ~UploadDone
    /\ frame.remote = "PROCESSING"
    /\ frame' = [frame EXCEPT !.remote = state]
    /\ UNCHANGED ProgramVars

UploadStep == WhileTest \/ Sleep \/ GetFile \/ IfFailed

NextUpload ==
    \/ \E path \in UploadPaths, doc \in Docs, state \in FileStates :
          UploadCall(path, doc, state)
    \/ WhileTest
    \/ Sleep
    \/ GetFile
    \/ IfFailed
    \/ \E state \in FileStates \ {"PROCESSING"} : RemoteSettles(state)

\* the interpreter executes the next statement of the call
SpecUpload == Init /\ [][NextUpload]_vars /\ WF_vars(UploadStep)

(***************************************************************************)
(* save_session statement by statement, with a reader of the directory.    *)
(* json.dump hands the text to the file object piece by piece; how much of *)
(* it has reached the file before the file is closed is up to the buffer.  *)
(***************************************************************************)
SaveIds == {<<"s1">>, <<"s2">>}
SaveRecords == <<StoreRecords[3], StoreRecords[4]>>
SaveDirs ==
    {EmptyDir,
     [f \in {FilePath(<<"s1">>)} |-> json_dump(StoreRecords[3])]}

SaveRest == <<session_state, uploaded_file, system_prompt, api_key, disk,
              n_tmp, n_uuid, n_runs, clock, errors, shown, sessions,
              summarize_calls, result, saved>>

Saving == frame.fn = "save_session"

\* the file of the call holding text
WithFile(dir, filepath, text) ==
    [f \in DOMAIN dir \cup {filepath} |->
        IF f = filepath THEN text ELSE dir[f]]

\* lines 12-14: the call; prev is what a reader got before it, calls the
\* number of calls so far
SaveCall(id, n) ==
    /\ \/ frame.pc = "none"
       \/ frame.pc \in {"closed", "raised"} /\ frame.calls < MaxSaves
    /\ frame' = [fn |-> "save_session", pc |-> "open", id |-> id,
                 data |-> SaveRecords[n],
                 text |-> json_dump(SaveRecords[n]), pos |-> 0,
                 prev |-> load_session(files, id),
                 calls |-> IF Saving THEN frame.calls + 1 ELSE 1]
    /\ UNCHANGED files
    /\ UNCHANGED SaveRest

\* line 22: open(filepath, "w") creates the file or truncates it
SaveOpen ==
    /\ Saving
    /\ frame.pc = "open"
    /\ files' = WithFile(files, FilePath(frame.id), <<>>)
    /\ frame' = [frame EXCEPT !.pc = "dump"]
    /\ UNCHANGED SaveRest

\* line 23: json.dump writes the next piece of the text
SaveWrite ==
    /\ Saving
    /\ frame.pc = "dump"
    /\ frame.pos < Len(frame.text)
    /\ frame' = [frame EXCEPT !.pos = @ + 1]
    /\ UNCHANGED files
    /\ UNCHANGED SaveRest

\* the buffer of the file object is written out
SaveFlush ==
    /\ Saving
    /\ frame.pc = "dump"
    /\ Len(files[FilePath(frame.id)]) < frame.pos
    /\ files' = WithFile(files, FilePath(frame.id),
                         SubSeq(frame.text, 1, frame.pos))
    /\ UNCHANGED frame
    /\ UNCHANGED SaveRest

\* the end of the with block after json.dump returned: the file is closed
SaveClose ==
    /\ Saving
    /\ frame.pc = "dump"
    /\ frame.pos = Len(frame.text)
    /\ files' = WithFile(files, FilePath(frame.id), frame.text)
    /\ frame' = [frame EXCEPT !.pc = "closed"]
    /\ UNCHANGED SaveRest

\* json.dump raises (a value that cannot be serialized, an I/O error): the
\* with block closes the file with what was written, and the call raises
SaveRaise ==
    /\ Saving
    /\ frame.pc = "dump"
    /\ frame.pos < Len(frame.text)
    /\ files' = WithFile(files, FilePath(frame.id),
                         SubSeq(frame.text, 1, frame.pos))
    /\ frame' = [frame EXCEPT !.pc = "raised"]
    /\ UNCHANGED SaveRest

InitSave == \E dir \in SaveDirs : InitWith(dir)

NextSave ==
    \/ \E id \in SaveIds, n \in 1..Len(SaveRecords) : SaveCall(id, n)
    \/ SaveOpen
    \/ SaveWrite
    \/ SaveFlush
    \/ SaveClose
    \/ SaveRaise
    \/ \E id \in SaveIds : StoreLoad(id)

SpecSave == InitSave /\ [][NextSave]_vars

(***************************************************************************)
(* Properties                                                              *)
(***************************************************************************)
\* the turns and the summary of the record stored under id; none when there
\* is no record
StoredTurns(dir, id) ==
    With(load_session(dir, id), LAMBDA r :
         IF r.raised \/ r.v.k # "obj" THEN <<>>
         ELSE Get(r.v, K("chat_history"), JArr(<<>>)).p)
StoredSummary(dir, id) ==
    With(load_session(dir, id), LAMBDA r :
         IF r.raised \/ r.v.k # "obj" THEN JNull
         ELSE Get(r.v, K("summary"), JNull))
\* user, assistant, user, assistant, ...
Paired(turns) ==
    /\ Len(turns) % 2 = 0
    /\ \A n \in 1..Len(turns) :
          Get(turns[n], K("role"), JNull)
              = JStr(<<IF n % 2 = 1 THEN "user" ELSE "assistant">>)
\* the session ids the application has used
SessionIds == {OLD_ID} \cup {Uuid(n) : n \in 1..n_uuid}

\* C1: load_session(i) returns a record equal to the one last saved under
\* i, whatever was stored under i before the save and whatever saves and
\* deletes of other ids happened since.
C1_SaveLoadRoundTrip ==
    \A i \in DOMAIN saved :
        load_session(files, i) = [raised |-> FALSE, v |-> saved[i]]
\* a record with quotes, backslashes, a newline and a non-ASCII character
\* was loaded back while another id holds a record too
C1_Witness ==
    /\ result.op = "load"
    /\ result.id \in DOMAIN saved
    /\ result.v = StoreRecords[1]
    /\ Cardinality(DOMAIN saved) > 1

\* C2: when the send of a user message raises, the sessions directory is
\* what it was before the message (nothing saved, no file created) and the
\* run ends with the error reported, not with an exception.
C2_FailedAskLeavesStore ==
    [][\A n \in 1..Len(Prompts), o \in Outcomes :
          (o.answer = Raise /\ SendMessageWith(Prompts[n], o))
              => (files' = files /\ errors' \cap {"generate", "exception"}
                                      = {"generate"})]_vars
\* a send failed in a session that has no record
C2_Witness ==
    /\ "generate" \in errors
    /\ Truthy(session_state.chat_history)
    /\ FilePath(session_state.session_id) \notin DOMAIN files

\* C3: the turns of every stored record are of even length and alternate
\* user, assistant: no user turn is stored without its reply.
C3_StoredTurnsPaired ==
    \A id \in SessionIds : Paired(StoredTurns(files, id))

\* C4: when a message q is sent and the reply is a, the record of the
\* session holds the turns it held before, then {user, q}, then
\* {assistant, a}; the first exchange of a session stores exactly the two.
C4_ExchangeAppended ==
    [][\A n \in 1..Len(Prompts), o \in Outcomes :
          (o.answer # Raise /\ SendMessageWith(Prompts[n], o))
              => StoredTurns(files', session_state.session_id)
                   = StoredTurns(files, session_state.session_id)
                       \o <<Msg("user", Prompts[n].p),
                            Msg("assistant", o.answer.p)>>]_vars

\* C5: when a session with N stored turns (N even, N > 0) is loaded and its
\* conversation is rebuilt, the history the conversation starts from has
\* 2 + N turns: the document and the instructions as a user turn, the
\* acknowledgement as a model turn, then the stored turns in their order,
\* user as user and assistant as model, so that the roles alternate; the
\* replay sends nothing, so no generated turn is in it.
C5_ReplaySeed ==
    [][\A n \in 1..Len(sessions) :
          LET turns == StoredTurns(files, sessions[n].id)
              seed == session_state'.chat_session.p
          IN (/\ ClickSession(n)
              /\ Len(turns) > 0
              /\ Len(turns) % 2 = 0
              /\ Truthy(session_state'.chat_session)
              /\ errors' = {})
             => /\ Len(seed) = 2 + Len(turns)
                /\ seed[1] = Turn("user", <<session_state'.gemini_file,
                                            system_prompt'.text>>)
                /\ seed[2] = Turn("model", <<JStr(ACK)>>)
                /\ \A k \in 1..Len(turns) :
                      seed[k + 2] =
                          Turn(IF Get(turns[k], K("role"), JNull)
                                    = JStr(<<"user">>)
                               THEN "user" ELSE "model",
                               <<Get(turns[k], K("content"), JNull)>>)
                /\ \A k \in 1..Len(seed) :
                      seed[k].role = IF k % 2 = 1 THEN "user" ELSE "model"]_vars

\* C6: between two New Chat or session loads a summary is requested at
\* most once for a document, and loading a record that has a summary
\* requests none.
C6_SummarizeAtMostOnce ==
    [][/\ \A d \in Docs : summarize_calls'[d] <= 1
       /\ \A n \in 1..Len(sessions) :
            (ClickSession(n) /\ Truthy(StoredSummary(files, sessions[n].id)))
                => summarize_calls' = NoCalls]_vars

\* C7: delete_session(i) raises nothing; load_session(i) then returns None;
\* when i has no record the directory is unchanged; the record of every
\* other id is unchanged.
C7_DeleteThenNotFound ==
    [][\A id \in StoreIds :
          StoreDelete(id) =>
              /\ ~result'.raised
              /\ load_session(files', id) = [raised |-> FALSE, v |-> JNull]
              /\ FilePath(id) \notin DOMAIN files => files' = files
              /\ \A f \in DOMAIN files \ {FilePath(id)} :
                    f \in DOMAIN files' /\ files'[f] = files[f]]_vars
\* an id was deleted while another id holds the record saved under it
C7_Witness ==
    /\ result.op = "delete"
    /\ ~result.raised
    /\ FilePath(result.id) \notin DOMAIN files
    /\ \E i \in DOMAIN saved :
          load_session(files, i) = [raised |-> FALSE, v |-> saved[i]]

\* C8: whatever the directory holds, list_sessions raises nothing and every
\* entry of its result comes from a file that parses.
C8_ListNeverThrows ==
    result.op = "list" =>
        /\ ~result.raised
        /\ \A n \in 1..Len(result.v.p) :
              \E f \in DOMAIN files :
                  /\ EndsWithJson(f)
                  /\ ReplaceJson(f) = result.v.p[n].id
                  /\ json_load(files[f]).ok

C10_CachedHandleKept ==
    [][(/\ uploaded_file # NoUpload
        /\ Truthy(session_state.gemini_file)
        /\ (Rerun \/ \E n \in 1..Len(Prompts) : SendMessage(Prompts[n])))
       => session_state'.gemini_file = session_state.gemini_file]_vars

\* C11: when a session that has no record uploads a document and the
\* summary request returns S, the sessions directory holds, before any
\* message is sent, a record under the session id whose summary is S and
\* whose turns are [].
C11_SummaryPersisted ==
    [][(/\ FilePath(session_state.session_id) \notin DOMAIN files
        /\ ~Truthy(session_state.summary)
        /\ Truthy(session_state'.summary)
        /\ session_state'.chat_history = JArr(<<>>)
        /\ \E d \in Docs : UploadFile(d))
       => /\ FilePath(session_state'.session_id) \in DOMAIN files'
          /\ StoredSummary(files', session_state'.session_id)
               = session_state'.summary
          /\ StoredTurns(files', session_state'.session_id) = <<>>]_vars

\* C12: the summary a session holds while a document is loaded is one that
\* was generated for that document: a new upload of another document does
\* not leave the summary of the previous document in place, in the working
\* state or in the record saved afterwards.
C12_SummaryOfDocument ==
    /\ (Truthy(session_state.gemini_file) /\ Truthy(session_state.summary))
          => \E s \in Summaries \ {Raise} :
                session_state.summary
                    = SummaryReply(session_state.gemini_file.p[2], s)
    /\ \A id \in SessionIds :
          LET data == load_session(files, id).v
              path == Get(data, K("pdf_path"), JNull)
          IN (/\ Truthy(data)
              /\ Truthy(Get(data, K("summary"), JNull))
              /\ Truthy(path)
              /\ path.p \in DOMAIN disk)
             => \E s \in Summaries \ {Raise} :
                   Get(data, K("summary"), JNull)
                       = SummaryReply(disk[path.p], s)

\* C13: upload_to_gemini asks for the file again exactly while the state it
\* saw last is PROCESSING; it stops at the first state that is not, raising
\* when that state is FAILED and returning the file otherwise, so that it
\* never returns a file it saw PROCESSING or FAILED; it does not end while
\* the remote file is PROCESSING, and it ends once the remote file has left
\* PROCESSING.
C13_PollWhileProcessing ==
    /\ [](Uploading =>
            /\ frame.pc \in {"sleep", "get_file"}
                  => frame.state = "PROCESSING"
            /\ \A n \in 1..(Len(frame.seen) - 1) :
                  frame.seen[n] = "PROCESSING"
            /\ frame.pc \in {"if", "returned", "raised"}
                  => frame.state # "PROCESSING"
            /\ frame.pc = "raised" => frame.state = "FAILED"
            /\ frame.pc = "returned" => frame.state = "ACTIVE"
            /\ UploadDone =>
                  /\ frame.remote # "PROCESSING"
                  /\ upload_to_gemini(frame.path, frame.doc, frame.seen)
                       = [raised |-> frame.pc = "raised",
                          file |-> GeminiFile(frame.path, frame.doc)])
    /\ (Uploading /\ frame.remote # "PROCESSING") ~> UploadDone
\* a call returned the file after finding it PROCESSING MaxPolls times
C13_Witness ==
    /\ Uploading
    /\ frame.pc = "returned"
    /\ Len(frame.seen) = MaxPolls + 1
    /\ frame.seen[MaxPolls] = "PROCESSING"

\* C14: when a session is loaded whose stored document path is not on disk
\* and the uploader is empty, nothing is uploaded and no conversation is
\* started, so that nothing can be asked, and this stays so on every rerun
\* until a document is supplied; the stored summary and turns are in the
\* working state and are rendered.
C14_MissingDocument ==
    [][/\ \A n \in 1..Len(sessions) :
            LET data == load_session(files, sessions[n].id).v
                path == Get(data, K("pdf_path"), JNull)
                summary == Get(data, K("summary"), JNull)
                turns == Get(data, K("chat_history"), JArr(<<>>))
            IN (/\ uploaded_file = NoUpload
                /\ ~(Truthy(path) /\ path.p \in DOMAIN disk)
                /\ ClickSession(n))
               => /\ session_state'.gemini_file = JNull
                  /\ session_state'.chat_session = JNull
                  /\ session_state'.summary = summary
                  /\ session_state'.chat_history = turns
                  /\ Truthy(summary) => shown'.summary = summary
                  /\ Truthy(turns) => shown'.chat = turns
       /\ (/\ uploaded_file = NoUpload
           /\ ~(/\ Truthy(session_state.current_file_path)
                /\ session_state.current_file_path.p \in DOMAIN disk)
           /\ session_state.chat_session = JNull
           /\ Rerun)
          => /\ session_state'.gemini_file = session_state.gemini_file
             /\ session_state'.chat_session = JNull
             /\ files' = files]_vars

\* C15: New Chat gives the session an id no session had before and no
\* record is stored under; its callback leaves both remote handles and the
\* document path None, the instructions at the default, the turns empty
\* and the summary None, and with an empty uploader the script run that
\* follows keeps them so; no file of the sessions directory changes.
C15_NewChatResets ==
    [][NewChat =>
         LET id == Uuid(n_uuid + 1)
             ss == new_chat(session_state, id)
             next == session_state'
         IN /\ id \notin SessionIds
            /\ id \notin {sessions[n].id : n \in 1..Len(sessions)}
            /\ FilePath(id) \notin DOMAIN files
            /\ ss.session_id = id
            /\ ss.gemini_file = JNull
            /\ ss.chat_session = JNull
            /\ ss.current_file_path = JNull
            /\ ss.system_prompt_val = JStr(DEFAULT_PROMPT)
            /\ ss.chat_history = JArr(<<>>)
            /\ ss.summary = JNull
            /\ next.session_id = id
            /\ next.chat_history = JArr(<<>>)
            /\ next.system_prompt_val = JStr(DEFAULT_PROMPT)
            /\ uploaded_file = NoUpload
                  => /\ next.gemini_file = JNull
                     /\ next.chat_session = JNull
                     /\ next.current_file_path = JNull
                     /\ next.summary = JNull
            /\ Truthy(next.summary)
                  => \E o \in Summaries \ {Raise} :
                        next.summary = SummaryReply(uploaded_file, o)
            /\ files' = files]_vars
\* New Chat was clicked in a session that has a record with turns, and the
\* new session has no turns and no summary
C15_Witness ==
    /\ session_state.session_id = Uuid(2)
    /\ StoredTurns(files, Uuid(1)) # <<>>
    /\ Truthy(StoredSummary(files, Uuid(1)))
    /\ session_state.chat_history = JArr(<<>>)
    /\ session_state.summary = JNull
    /\ session_state.chat_session = JNull

\* C16: at every step and for every session id, the turns stored under the
\* id before the step are a prefix of the turns stored under it after the
\* step and a record that exists stays; at most one file of the sessions
\* directory belongs to an id.
C16_StoredTurnsAppendOnly ==
    [][\A id \in SessionIds \cup {Uuid(n_uuid + 1)} :
          LET old == StoredTurns(files, id)
              new == StoredTurns(files', id)
          IN /\ Len(old) <= Len(new)
             /\ SubSeq(new, 1, Len(old)) = old
             /\ FilePath(id) \in DOMAIN files
                   => FilePath(id) \in DOMAIN files'
             /\ Cardinality({f \in DOMAIN files' :
                                EndsWithJson(f) /\ ReplaceJson(f) = id}) <= 1]_vars
\* a session was saved after each of two exchanges and its record holds
\* both
C16_Witness ==
    /\ clock = 2
    /\ \E id \in SessionIds :
          /\ Len(StoredTurns(files, id)) = 4
          /\ Paired(StoredTurns(files, id))
          /\ session_state.session_id = id

\* C17: a list_sessions that returns has exactly one entry for each file
\* of the directory that parses as a record, the id of the entry being the
\* id the record is stored under (every id that was saved with a record is
\* listed under that id), and the entries are in descending order of
\* timestamp.
C17_ListOnePerRecord ==
    (result.op = "list" /\ ~result.raised) =>
        LET entries == result.v.p
            records == {f \in DOMAIN files :
                          /\ EndsWithJson(f)
                          /\ json_load(files[f]).ok
                          /\ json_load(files[f]).v.k = "obj"}
        IN /\ Len(entries) = Cardinality(records)
           /\ \A f \in records :
                 Cardinality({n \in 1..Len(entries) :
                                FilePath(entries[n].id) = f}) = 1
           /\ \A i \in DOMAIN saved :
                 saved[i].k = "obj"
                     => \E n \in 1..Len(entries) : entries[n].id = i
           /\ \A m, n \in 1..Len(entries) :
                 m < n => ~Less(entries[m].timestamp, entries[n].timestamp)

\* C18: at every point during and after a save_session of an id, also of
\* one that raises partway, load_session of the id returns what it
\* returned before the call (the previous record, or None) or the data of
\* the call, and does not raise.
C18_SaveAtomic ==
    Saving =>
        LET r == load_session(files, frame.id)
        IN /\ ~r.raised
           /\ r = frame.prev \/ r.v = frame.data

\* C19: when a session with stored turns is loaded and the script has run,
\* a conversation handle that exists, on which the next message would be
\* sent, holds the seed pair followed by every stored turn in order, also
\* when the upload, the start or the summary request of the rebuild failed.
C19_HandleHoldsStoredTurns ==
    [][\A n \in 1..Len(sessions) :
          LET turns == StoredTurns(files, sessions[n].id)
              next == session_state'
          IN (/\ ClickSession(n)
              /\ Len(turns) > 0
              /\ Truthy(next.chat_session))
             => next.chat_session.p
                  = full_history(initial_history(next.gemini_file,
                                                 system_prompt'.text),
                                 turns)]_vars

====
